---- MODULE Spec2Model ----
(***************************************************************************)
(* Model of the device action orchestration core of church-tv-controller:  *)
(* the per-device resolutions of adb_controller.py (bridge protocol) and   *)
(* webos_controller.py (paired protocol), the protocol selection of        *)
(* tv_service.py, and the two thread-pool dispatchers                      *)
(* (tv_service.execute_on_multiple_tvs and the older                       *)
(* adb_controller.execute_on_multiple_tvs).                                *)
(*                                                                         *)
(* A dispatch call submits one work item per entry of tv_list to a         *)
(* ThreadPoolExecutor, whose workers take the items in submission order,   *)
(* at most max_workers at a time.  Every blocking driver call (connect,    *)
(* state read, toggle, Wake-on-LAN, power-off) is one step of the worker   *)
(* that runs it, and its outcome is chosen by the environment.  The        *)
(* calling thread then iterates as_completed(): futures that were already  *)
(* finished when as_completed() was called are yielded first, in no        *)
(* particular order, the others in the order in which they finish.         *)
(*                                                                         *)
(* The paired resolutions share the token file webos_tokens.json: a        *)
(* handshake that registers or prompts saves its credential by loading the *)
(* file, setting its own entry and writing the file back, two steps of the *)
(* worker with no lock around them.                                        *)
(***************************************************************************)
EXTENDS Naturals, Sequences, FiniteSets, TLC

\* ---------------------------------------------------------------- bounds
MaxDevices == 3
MaxWorkers == 2
MaxSeqLen == 1

Devices == 1..MaxDevices

\* ------------------------------------------------- models.py: the records
\* TVState (models.py:5-9) and ActionResult (models.py:12-15); "none" is None.
TVState == {"unknown", "awake", "asleep", "unreachable"}
ActionResult == {"success", "failed", "skipped"}

\* TVConfig (models.py:18-23).  The configured devices: a bridge ("adb")
\* device, a paired ("webos") device with a MAC address, a paired device
\* without one, and so on in turn.  name and ip are the device's number.
TVConfig(d) ==
  [name |-> d, ip |-> d,
   protocol |-> IF d % 3 = 1 THEN "adb" ELSE "webos",
   mac |-> (d % 3 = 2)]

\* TVStatus (models.py:26-32).
TVStatus(name, ip, state, action_result, message) ==
  [name |-> name, ip |-> ip, state |-> state,
   action_result |-> action_result, message |-> message]

NoStatus == TVStatus(0, 0, "unknown", "none", "")

VARIABLES
  entry,        \* which dispatcher is called: "tv_service" or "adb_controller"
  action,       \* "check", "on" or "off"
  max_workers,  \* the pool size
  on_tv_complete, \* whether a completion callback is supplied
  tv_list,      \* the devices of the call, a sequence of device numbers
  power,        \* each device's actual power state: "awake" or "asleep"
  pc,           \* each work item's position
  conn,         \* each resolution's connect outcome
  cur,          \* each resolution's current_state (the state read)
  pw,           \* each resolution's power command outcome
  cmds,         \* the driver calls each resolution made, in order
  fut,          \* each future: done, the exception raised, the status returned
  nsub,         \* how many work items the submit loop has submitted
  dstate,       \* the calling thread: "submit", "collect", "returned"
  early,        \* the futures that were finished when as_completed() was called
  snap,         \* those of them not yet yielded
  fin,          \* waiter.finished_futures: finished since, not yet yielded
  results,      \* the results list
  cbLog,        \* the statuses the callback received, in order
  order,        \* the work items in the order the loop handled them
  waiting,      \* the finished work items not yet handled, in completion order
  callNo,       \* 1 for the first dispatch call, 2 for a repeated one
  prev,         \* what the first call ended with, per work item
  tokens,       \* webos_tokens.json: the ips that have a credential stored
  loaded,       \* each resolution's tokens dict between load and save
  cb_raises,    \* the devices for whose status the callback raises
  body,         \* the work items whose loop body (append, callback) is running
  is_operation_running, \* the window's flag (tv_controller.py:95)
  buttons,      \* the state of the buttons: "normal" or "disabled"
  indicator,    \* each device's indicator: unknown, connecting, success, failed
  reset_jobs,   \* the keys of self.reset_jobs (tv_controller.py:96)
  timers,       \* per key, the reset timers pending in the event loop
  applied,      \* how many indicator updates of the operation have run
  threads,      \* the run_operation threads that have not ended
  queued,       \* whether on_operation_complete waits in the event queue
  presses       \* how often a button action has been called

vars == <<entry, action, max_workers, on_tv_complete, tv_list, power, pc, conn,
          cur, pw, cmds, fut, nsub, dstate, early, snap, fin, results, cbLog,
          order, waiting, callNo, prev, tokens, loaded, cb_raises, body,
          is_operation_running, buttons, indicator, reset_jobs, timers,
          applied, threads, queued, presses>>

inputVars == <<entry, action, max_workers, on_tv_complete, tv_list, cb_raises>>
taskVars == <<pc, conn, cur, pw, cmds, fut>>
loopVars == <<nsub, dstate, early, snap, results, cbLog, order, body>>
callVars == <<callNo, prev>>
storeVars == <<tokens, loaded>>
uiVars == <<is_operation_running, buttons, indicator, reset_jobs, timers,
            applied, threads, queued, presses>>

N == Len(tv_list)
Tasks == 1..N
Dev(i) == tv_list[i]
Config(i) == TVConfig(tv_list[i])

\* The sequences over S of length n, in increasing order: the device lists.
RECURSIVE IncSeqs(_, _)
IncSeqs(lo, hi) ==
  IF lo > hi THEN {<<>>}
  ELSE IncSeqs(lo + 1, hi) \cup {<<lo>> \o s : s \in IncSeqs(lo + 1, hi)}

DeviceLists == IncSeqs(1, MaxDevices) \ {<<>>}

\* ------------------------------------------------------ the thread pool
Running ==
  {i \in Tasks : pc[i] \in {"run", "read", "toggle", "load", "save", "wol",
                            "poweroff", "hung"}}
Queued == {i \in Tasks : pc[i] = "queued"}
\* A pool that starts every queued work item at once.
WorkerFree_Unbounded == TRUE

\* ThreadPoolExecutor(max_workers): a queued work item starts only while
\* fewer than max_workers items are running (tv_service.py:47).
WorkerFree == Cardinality(Running) < max_workers

\* A resolution ends: its future is set (a returned status, or the exception
\* raised), and once as_completed() is waiting the future is added to the
\* waiter's finished list.
Complete(i, exc, status) ==
  /\ pc' = [pc EXCEPT ![i] = "done"]
  /\ fut' = [fut EXCEPT ![i] = [done |-> TRUE, exc |-> exc, status |-> status]]
  /\ waiting' = Append(waiting, i)
  /\ fin' = IF dstate = "collect" THEN Append(fin, i) ELSE fin

Return(i, status) == Complete(i, "", status)

Issue(i, c) == cmds' = [cmds EXCEPT ![i] = Append(@, c)]

\* A worker takes the next work item of the queue (submission order).
Start(i) ==
  /\ i \in Queued
  /\ \A j \in Queued : i <= j
  /\ WorkerFree
  /\ pc' = [pc EXCEPT ![i] = "run"]
  /\ UNCHANGED <<uiVars, inputVars, power, conn, cur, pw, cmds, fut, loopVars, fin,
                 waiting, callVars, storeVars>>

\* ------------------------------------------- tv_service.py: the resolver
\* get_action_function and check/turn_on/turn_off_single_tv of tv_service.py:
\* a "webos" descriptor goes to webos_controller, any other to adb_controller.
\* tv_service calls adb_controller's functions with the one argument config,
\* where they take (name, ip) (adb_controller.py:114,135,187): the call
\* raises TypeError before any driver call is made.
\* adb_controller.execute_on_multiple_tvs calls them with (name, ip).
Route(e, protocol) ==
  IF e = "adb_controller" THEN "adb"
  ELSE IF protocol = "webos" THEN "webos"
  ELSE "typeerror"

TypeErrorDetail == "missing 1 required positional argument: 'ip'"

BadCall(i) ==
  /\ i \in Tasks /\ pc[i] = "run"
  /\ Route(entry, Config(i).protocol) = "typeerror"
  /\ Complete(i, TypeErrorDetail, NoStatus)
  /\ UNCHANGED <<uiVars, inputVars, power, conn, cur, pw, cmds, loopVars, callVars, storeVars>>
\* A query that reports an outcome like an action does.
Outcome_Always(a, r) == r

\* ------------------------------------------ adb_controller.py: the bridge
\* The outcome value of an action's statuses: None for a query.
Outcome(a, r) == IF a = "check" THEN "none" ELSE r

ConnectionMessage == "Connection timed out"
ToggleMessage == "error: closed"
\* A resolution that takes a failed connect for a device that is off.
AdbConnectFailed_AsOff(i) ==
  TVStatus(Config(i).name, Config(i).ip, "asleep",
           Outcome(action, "skipped"), "Already off or unreachable")

\* check/turn_on/turn_off_single_tv up to the connect (adb_controller.py
\* 115-123, 136-145, 188-197).
AdbConnectFailed(i) ==
  TVStatus(Config(i).name, Config(i).ip, "unreachable",
           Outcome(action, "failed"), "Could not connect: " \o ConnectionMessage)

\* A turn-on or turn-off that toggles without reading the state.
AfterAdbConnect_BlindToggle(a) == IF a = "check" THEN "read" ELSE "toggle"

\* What follows a successful connect: get_tv_power_state, for every action
\* (adb_controller.py:125,147,199).
AfterAdbConnect(a) == "read"

AdbConnect(i) ==
  /\ i \in Tasks /\ pc[i] = "run"
  /\ Route(entry, Config(i).protocol) = "adb"
  /\ Issue(i, "connect")
  /\ \E connected \in BOOLEAN :
       /\ conn' = [conn EXCEPT ![i] = IF connected THEN "ok" ELSE "fail"]
       /\ IF connected
          THEN /\ pc' = [pc EXCEPT ![i] = AfterAdbConnect(action)]
               /\ UNCHANGED <<fut, waiting, fin>>
          ELSE Return(i, AdbConnectFailed(i))
  /\ UNCHANGED <<uiVars, inputVars, power, cur, pw, loopVars, callVars, storeVars>>

\* get_tv_power_state (adb_controller.py:86-102): UNREACHABLE when the
\* command fails, AWAKE or ASLEEP from the output, UNKNOWN for any other
\* output.
StateReads(d) == {power[d], "unreachable", "unknown"}

\* The state at which the action has nothing to do (adb_controller.py:149,201).
TargetState(a) == IF a = "on" THEN "awake" ELSE "asleep"
\* A query that goes on to toggle like a turn-off.
AdbSendsToggle_EvenForQuery(a, current_state) ==
  /\ current_state # TargetState(a)
  /\ current_state # "unreachable"
\* A resolution that toggles although the state could not be read.
AdbSendsToggle_AfterFailedRead(a, current_state) ==
  /\ a # "check"
  /\ current_state # TargetState(a)
\* A turn-on or turn-off that always toggles.
AdbSendsToggle_Always(a, current_state) == a # "check"

\* A resolution that toggles whatever state it read.
AdbSendsToggle_IgnoresState(a, current_state) ==
  /\ a # "check"
  /\ current_state # "unreachable"

\* Whether the resolution goes on to send_power_toggle after the state read
\* (adb_controller.py:149-167, 201-219): not for a query, not at the target
\* state, not when the state could not be read.
AdbSendsToggle(a, current_state) ==
  /\ a # "check"
  /\ current_state # TargetState(a)
  /\ current_state # "unreachable"
\* A resolution that reports a failed state read as an unknown state.
AdbAfterRead_FailedReadUnknown(a, name, ip, current_state) ==
  IF a = "check" THEN TVStatus(name, ip, current_state, "none", "Connected")
  ELSE IF current_state = TargetState(a)
    THEN TVStatus(name, ip, TargetState(a), "skipped",
                  IF a = "on" THEN "Already on" ELSE "Already off")
  ELSE TVStatus(name, ip, "unknown", "failed", "Could not read power state")

\* The status returned after the state read when no toggle is sent
\* (adb_controller.py:125-132, 149-165, 201-217).
AdbAfterRead(a, name, ip, current_state) ==
  IF a = "check" THEN TVStatus(name, ip, current_state, "none", "Connected")
  ELSE IF current_state = TargetState(a)
    THEN TVStatus(name, ip, TargetState(a), "skipped",
                  IF a = "on" THEN "Already on" ELSE "Already off")
  ELSE TVStatus(name, ip, "unreachable", "failed", "Could not read power state")

AdbRead(i) ==
  /\ i \in Tasks /\ pc[i] = "read"
  /\ Issue(i, "read")
  /\ \E state \in StateReads(Dev(i)) :
       /\ cur' = [cur EXCEPT ![i] = state]
       /\ IF AdbSendsToggle(action, state)
          THEN /\ pc' = [pc EXCEPT ![i] = "toggle"]
               /\ UNCHANGED <<fut, waiting, fin>>
          ELSE Return(i, AdbAfterRead(action, Config(i).name, Config(i).ip, state))
  /\ UNCHANGED <<uiVars, inputVars, power, conn, pw, loopVars, callVars, storeVars>>
\* A resolution that reports success whether or not the toggle was sent.
AdbAfterToggle_IgnoresFailure(a, name, ip, current_state, toggle_success) ==
  TVStatus(name, ip, TargetState(a), "success",
           IF a = "on" THEN "Turned on" ELSE "Turned off")

\* The status after send_power_toggle (adb_controller.py:167-184, 219-236).
AdbAfterToggle(a, name, ip, current_state, toggle_success) ==
  IF ~toggle_success
  THEN TVStatus(name, ip, current_state, "failed", "Toggle failed: " \o ToggleMessage)
  ELSE TVStatus(name, ip, TargetState(a), "success",
                IF a = "on" THEN "Turned on" ELSE "Turned off")

Flip(p) == IF p = "awake" THEN "asleep" ELSE "awake"

\* send_power_toggle (adb_controller.py:105-111): keyevent 26 flips the
\* device's power when it is delivered.
AdbToggle(i) ==
  /\ i \in Tasks /\ pc[i] = "toggle"
  /\ Issue(i, "toggle")
  /\ \E toggle_success \in BOOLEAN :
       /\ pw' = [pw EXCEPT ![i] = IF toggle_success THEN "ok" ELSE "fail"]
       /\ power' = IF toggle_success
                   THEN [power EXCEPT ![Dev(i)] = Flip(@)] ELSE power
       /\ Return(i, AdbAfterToggle(action, Config(i).name, Config(i).ip,
                                  cur[i], toggle_success))
  /\ UNCHANGED <<uiVars, inputVars, conn, cur, loopVars, callVars, storeVars>>

\* ---------------------------------------- webos_controller.py: the paired
\* connect_to_webos_tv (webos_controller.py:55-73).  The handshake ends
\* "registered" (a client), "prompted", with no status ("regfail"), or with
\* an exception ("error"); get_token_for_ip, outside the try, raises when the
\* token file does not hold a JSON object ("fault"); client.connect() has no
\* timeout and may never return ("hang").  A device that is asleep answers
\* no handshake.
WebosConnects(d) ==
  IF power[d] = "awake"
  THEN {"registered", "prompted", "regfail", "error", "fault", "hang"}
  ELSE {"error", "fault", "hang"}

WebosErrorMessage == "timed out"
TokenFaultDetail == "'list' object has no attribute 'get'"

\* The message connect_to_webos_tv returns (webos_controller.py:65-73).
WebosMessage(c) ==
  IF c = "registered" THEN "Connected"
  ELSE IF c = "prompted" THEN "Accept prompt on TV"
  ELSE IF c = "regfail" THEN "Registration failed"
  ELSE WebosErrorMessage

\* "Accept prompt" in message (webos_controller.py:80,132,165).
IsPrompt(message) == message = "Accept prompt on TV"

\* A turn-on that never tests for the MAC address.
MissingMac_Never(a, config) == FALSE

\* turn_on_single_tv's first test, not config.mac (webos_controller.py:108).
MissingMac(a, config) == a = "on" /\ ~config.mac

\* turn_on_single_tv without a MAC address (webos_controller.py:108-115).
WebosNoMac(i) ==
  /\ i \in Tasks /\ pc[i] = "run"
  /\ Route(entry, Config(i).protocol) = "webos"
  /\ MissingMac(action, Config(i))
  /\ Return(i, TVStatus(Config(i).name, Config(i).ip, "unknown", "failed",
                        "No MAC address configured for Wake-on-LAN"))
  /\ UNCHANGED <<uiVars, inputVars, power, conn, cur, pw, cmds, loopVars, callVars, storeVars>>
\* A turn-on that sends the packet while the pairing prompt is pending.
WebosNext_WolOnPrompt(a, c) ==
  IF a = "check" THEN "return"
  ELSE IF a = "on"
    THEN IF c = "registered" THEN "return" ELSE "wol"
  ELSE IF c = "registered" THEN "poweroff" ELSE "return"

\* A turn-off that calls power_off without a connected client.
WebosNext_PowerOffUnconnected(a, c) ==
  IF a = "check" THEN "return"
  ELSE IF a = "on"
    THEN IF c = "registered" \/ IsPrompt(WebosMessage(c)) THEN "return" ELSE "wol"
  ELSE IF IsPrompt(WebosMessage(c)) THEN "return" ELSE "poweroff"

\* What follows the connect: "wol", "poweroff" or "return"
\* (webos_controller.py:79-92, 119-141, 164-181).
WebosNext(a, c) ==
  IF a = "check" THEN "return"
  ELSE IF a = "on"
    THEN IF c = "registered" \/ IsPrompt(WebosMessage(c)) THEN "return" ELSE "wol"
  ELSE IF c = "registered" THEN "poweroff" ELSE "return"

\* A resolution that takes the pending prompt for a failed connect.
WebosAfterConnect_PromptUnreachable(a, name, ip, c) ==
  IF c = "registered"
  THEN IF a = "check" THEN TVStatus(name, ip, "awake", "none", "Connected")
       ELSE TVStatus(name, ip, "awake", "skipped", "Already on")
  ELSE TVStatus(name, ip, "unreachable", Outcome(a, "failed"),
                "Could not connect: " \o WebosMessage(c))

\* The status returned after the connect when no power command follows
\* (webos_controller.py:79-104, 119-139, 164-179).
WebosAfterConnect(a, name, ip, c) ==
  IF c = "registered"
  THEN IF a = "check" THEN TVStatus(name, ip, "awake", "none", "Connected")
       ELSE TVStatus(name, ip, "awake", "skipped", "Already on")
  ELSE IF IsPrompt(WebosMessage(c))
  THEN TVStatus(name, ip, "unknown", Outcome(a, "failed"), WebosMessage(c))
  ELSE IF a = "check"
  THEN TVStatus(name, ip, "unreachable", "none",
                "Could not connect: " \o WebosMessage(c))
  ELSE TVStatus(name, ip, "asleep", "skipped", "Already off or unreachable")

\* The handshake statuses at which connect_to_webos_tv saves the credential
\* (webos_controller.py:63-68).
SavesToken(c) == c \in {"registered", "prompted"}

\* The token file after save_token_for_ip(ip, store) (webos_controller.py
\* 32-35): the dict it loaded with tokens[ip] set, whatever the file holds
\* by then.
WrittenTokens(loadedTokens, fileTokens, ip) == loadedTokens \cup {ip}

\* connect_to_webos_tv has returned (client, message) for handshake outcome c:
\* the resolution returns its status or goes on to its power command.
WebosConnected(i, c) ==
  IF WebosNext(action, c) = "return"
  THEN Return(i, WebosAfterConnect(action, Config(i).name, Config(i).ip, c))
  ELSE /\ pc' = [pc EXCEPT ![i] = WebosNext(action, c)]
       /\ UNCHANGED <<fut, waiting, fin>>

WebosConnect(i) ==
  /\ i \in Tasks /\ pc[i] = "run"
  /\ Route(entry, Config(i).protocol) = "webos"
  /\ ~MissingMac(action, Config(i))
  /\ \E c \in WebosConnects(Dev(i)) :
       /\ conn' = [conn EXCEPT ![i] = c]
       /\ IF c = "fault"
          THEN /\ Complete(i, TokenFaultDetail, NoStatus)
               /\ UNCHANGED cmds
          ELSE /\ Issue(i, "connect")
               /\ IF c = "hang"
                  THEN /\ pc' = [pc EXCEPT ![i] = "hung"]
                       /\ UNCHANGED <<fut, waiting, fin>>
                  ELSE IF SavesToken(c)
                  THEN /\ pc' = [pc EXCEPT ![i] = "load"]
                       /\ UNCHANGED <<fut, waiting, fin>>
                  ELSE WebosConnected(i, c)
  /\ UNCHANGED <<uiVars, inputVars, power, cur, pw, loopVars, callVars, storeVars>>

\* save_token_for_ip, first half (webos_controller.py:33): load_tokens reads
\* the token file into the resolution's own dict.
WebosLoadTokens(i) ==
  /\ i \in Tasks /\ pc[i] = "load"
  /\ loaded' = [loaded EXCEPT ![i] = tokens]
  /\ pc' = [pc EXCEPT ![i] = "save"]
  /\ UNCHANGED <<uiVars, inputVars, power, conn, cur, pw, cmds, fut, loopVars, fin,
                 waiting, callVars, tokens>>

\* save_token_for_ip, second half (webos_controller.py:34-35): the dict read
\* earlier, with this ip's credential set, replaces the token file; then
\* connect_to_webos_tv returns and the resolution goes on.
WebosSaveTokens(i) ==
  /\ i \in Tasks /\ pc[i] = "save"
  /\ tokens' = WrittenTokens(loaded[i], tokens, Config(i).ip)
  /\ loaded' = [loaded EXCEPT ![i] = {}]
  /\ cmds' = [cmds EXCEPT ![i] = Append(@, "save")]
  /\ WebosConnected(i, conn[i])
  /\ UNCHANGED <<uiVars, inputVars, power, conn, cur, pw, loopVars, callVars>>

\* The status after send_wol_packet (webos_controller.py:141-158).
WebosAfterWol(name, ip, wol_success) ==
  IF ~wol_success
  THEN TVStatus(name, ip, "asleep", "failed", "Wake-on-LAN packet failed to send")
  ELSE TVStatus(name, ip, "awake", "success", "Wake-on-LAN packet sent")

\* send_wol_packet (webos_controller.py:43-52): False on a local failure; a
\* packet that was sent may or may not wake the device.
WebosWol(i) ==
  /\ i \in Tasks /\ pc[i] = "wol"
  /\ Issue(i, "wol")
  /\ \E wol_success \in BOOLEAN :
       /\ pw' = [pw EXCEPT ![i] = IF wol_success THEN "ok" ELSE "fail"]
       /\ \E woke \in BOOLEAN :
            power' = IF wol_success /\ woke
                     THEN [power EXCEPT ![Dev(i)] = "awake"] ELSE power
       /\ Return(i, WebosAfterWol(Config(i).name, Config(i).ip, wol_success))
  /\ UNCHANGED <<uiVars, inputVars, conn, cur, loopVars, callVars, storeVars>>

PowerOffMessage == "connection closed"
\* A turn-off that reports the device asleep although power_off failed.
WebosAfterPowerOff_AsleepOnFailure(name, ip, ok) ==
  IF ~ok
  THEN TVStatus(name, ip, "asleep", "failed", "Power off failed: " \o PowerOffMessage)
  ELSE TVStatus(name, ip, "asleep", "success", "Turned off")

\* The status after SystemControl.power_off (webos_controller.py:181-208).
WebosAfterPowerOff(name, ip, ok) ==
  IF ~ok
  THEN TVStatus(name, ip, "awake", "failed", "Power off failed: " \o PowerOffMessage)
  ELSE TVStatus(name, ip, "asleep", "success", "Turned off")

WebosPowerOff(i) ==
  /\ i \in Tasks /\ pc[i] = "poweroff"
  /\ Issue(i, "poweroff")
  /\ \E ok \in BOOLEAN :
       /\ pw' = [pw EXCEPT ![i] = IF ok THEN "ok" ELSE "fail"]
       /\ power' = IF ok THEN [power EXCEPT ![Dev(i)] = "asleep"] ELSE power
       /\ Return(i, WebosAfterPowerOff(Config(i).name, Config(i).ip, ok))
  /\ UNCHANGED <<uiVars, inputVars, conn, cur, loopVars, callVars, storeVars>>

\* --------------------------------- execute_on_multiple_tvs: the dispatcher
\* executor.submit(action_function, config) for the next config of tv_list
\* (tv_service.py:48-51, adb_controller.py:251-254).
Submit ==
  /\ dstate = "submit" /\ nsub < N
  /\ nsub' = nsub + 1
  /\ pc' = [pc EXCEPT ![nsub + 1] = "queued"]
  /\ UNCHANGED <<uiVars, inputVars, power, conn, cur, pw, cmds, fut, dstate, early, snap,
                 fin, results, cbLog, order, body, waiting, callVars, storeVars>>
\* An iteration that forgets the futures finished before it began.
EarlyFinished_Dropped == {}

\* as_completed(future_to_tv) is called once every work item is submitted
\* (tv_service.py:53): the futures already finished are set aside to be
\* yielded first, the waiter collects the others as they finish.
EarlyFinished == {i \in Tasks : fut[i].done}

AsCompleted ==
  /\ dstate = "submit" /\ nsub = N
  /\ dstate' = "collect"
  /\ early' = EarlyFinished
  /\ snap' = EarlyFinished
  /\ fin' = <<>>
  /\ UNCHANGED <<uiVars, inputVars, power, taskVars, nsub, results, cbLog, order, body,
                 waiting, callVars, storeVars>>
\* A loop body that takes the future's status without converting a fault.
StatusOf_Unconverted(f, config) == f.status

\* The status the loop body obtains for a future (tv_service.py:54-65,
\* adb_controller.py:257-268): future.result(), or the fault converted.
StatusOf(f, config) ==
  IF f.exc = "" THEN f.status
  ELSE TVStatus(config.name, config.ip, "unreachable", "failed", "Error: " \o f.exc)
\* An iterator that yields any finished future, not the first to finish.
Yieldable_AnyFinished ==
  IF snap # {} THEN snap ELSE {fin[k] : k \in 1..Len(fin)}

\* A loop over the futures in submission order, waiting for each in turn.
Yieldable_InOrder ==
  IF Len(order) < N /\ fut[Len(order) + 1].done THEN {Len(order) + 1} ELSE {}

\* The futures as_completed may yield next: any of those finished before it
\* was called, then the head of the waiter's list.
Yieldable ==
  IF snap # {} THEN snap
  ELSE IF fin # <<>> THEN {Head(fin)} ELSE {}

\* A loop whose next iteration starts while the last one's callback runs.
LoopFree_Concurrent == TRUE

\* The for loop is the calling thread's (tv_service.py:53): it takes the next
\* future only when the body of the last iteration has finished.
LoopFree == body = {}

\* One iteration of the loop up to the call of the callback (tv_service.py
\* 53-70): the status is appended to results and handed to the callback, if
\* one was supplied.
Handle(i) ==
  /\ dstate = "collect"
  /\ LoopFree
  /\ i \in Yieldable
  /\ body' = body \cup {i}
  /\ snap' = snap \ {i}
  /\ fin' = SelectSeq(fin, LAMBDA j : j # i)
  /\ LET status == StatusOf(fut[i], Config(i))
     IN /\ results' = Append(results, status)
        /\ cbLog' = IF on_tv_complete THEN Append(cbLog, status) ELSE cbLog
  /\ order' = Append(order, i)
  /\ waiting' = SelectSeq(waiting, LAMBDA j : j # i)
  /\ UNCHANGED <<uiVars, inputVars, power, taskVars, nsub, dstate, early, callVars, storeVars>>

\* The callback returns and the iteration ends (tv_service.py:69-70); when it
\* raises instead, nothing catches the exception: it leaves the loop, and the
\* with block waits for the work items before the call raises.
CallbackReturn(i) ==
  /\ dstate = "collect"
  /\ i \in body
  /\ body' = body \ {i}
  /\ dstate' = IF on_tv_complete /\ Dev(i) \in cb_raises THEN "aborting" ELSE dstate
  /\ UNCHANGED <<uiVars, inputVars, power, taskVars, nsub, early, snap, fin, results,
                 cbLog, order, waiting, callVars, storeVars>>

\* The iterator ends when no future is pending and none is left to yield;
\* the with block joins the workers (every work item submitted is run) and
\* the call returns results (tv_service.py:72), or raises what the callback
\* raised.
ReturnResults ==
  /\ \/ dstate = "collect" /\ Yieldable = {} /\ body = {}
     \/ dstate = "aborting"
  /\ \A i \in Tasks : fut[i].done
  /\ dstate' = IF dstate = "aborting" THEN "raised" ELSE "returned"
  /\ UNCHANGED <<uiVars, inputVars, power, taskVars, nsub, early, snap, fin, results,
                 cbLog, order, body, waiting, callVars, storeVars>>

\* ------------------------------------------------------- specifications
NoFuture == [done |-> FALSE, exc |-> "", status |-> NoStatus]

\* The state of a call that has just been entered (tv_service.py:44-45).
CallInit ==
  /\ pc = [i \in Tasks |-> "unsub"]
  /\ conn = [i \in Tasks |-> "none"]
  /\ cur = [i \in Tasks |-> "none"]
  /\ pw = [i \in Tasks |-> "none"]
  /\ cmds = [i \in Tasks |-> <<>>]
  /\ fut = [i \in Tasks |-> NoFuture]
  /\ nsub = 0
  /\ dstate = "submit"
  /\ early = {}
  /\ snap = {}
  /\ fin = <<>>
  /\ results = <<>>
  /\ cbLog = <<>>
  /\ order = <<>>
  /\ waiting = <<>>
  /\ loaded = [i \in Tasks |-> {}]
  /\ body = {}

\* The window after construction (tv_controller.py:35,95-96): no operation,
\* buttons enabled, every indicator gray, no reset job.
WindowInit ==
  /\ is_operation_running = FALSE
  /\ buttons = "normal"
  /\ indicator = [d \in Devices |-> "unknown"]
  /\ reset_jobs = {}
  /\ timers = [d \in Devices |-> 0]
  /\ applied = 0
  /\ threads = 0
  /\ queued = FALSE
  /\ presses = 0

InList(d) == \E i \in Tasks : tv_list[i] = d

\* The devices a resolution of the call talks to: those of tv_list, but for
\* the ones whose resolution raises at its call (tv_service.py:12,18,24).
\* The power of the other devices plays no part and is taken to be asleep.
Contacted(d) ==
  /\ InList(d)
  /\ Route(entry, TVConfig(d).protocol) # "typeerror"

Init ==
  /\ entry \in {"tv_service", "adb_controller"}
  /\ action \in {"check", "on", "off"}
  /\ max_workers \in 1..MaxWorkers
  /\ on_tv_complete = TRUE  \* the caller supplies one (tv_controller.py:351)
  /\ cb_raises = {}         \* one that returns (tv_controller.py:322-325)
  /\ tv_list \in DeviceLists
  /\ entry = "adb_controller" => \A i \in Tasks : Config(i).protocol = "adb"
  /\ power \in [Devices -> {"awake", "asleep"}]
  /\ \A d \in Devices : ~Contacted(d) => power[d] = "asleep"
  /\ CallInit
  /\ WindowInit
  /\ callNo = 1
  /\ prev = [i \in Tasks |-> [status |-> NoStatus, cur |-> "none"]]
  /\ tokens = {}  \* no token file yet: load_tokens returns {} (line 17-18)

\* A device configured in both groups is in the list of the all-TVs
\* operations twice (tv_controller.py:381,390,399): the lists of one device
\* twice.
DupLists == {<<d, d>> : d \in Devices}

\* The start of a call whose list holds one device twice.
InitDup ==
  /\ entry \in {"tv_service", "adb_controller"}
  /\ action \in {"check", "on", "off"}
  /\ max_workers \in 1..MaxWorkers
  /\ on_tv_complete = TRUE
  /\ cb_raises = {}
  /\ tv_list \in DupLists
  /\ entry = "adb_controller" => \A i \in Tasks : Config(i).protocol = "adb"
  /\ power \in [Devices -> {"awake", "asleep"}]
  /\ \A d \in Devices : ~Contacted(d) => power[d] = "asleep"
  /\ CallInit
  /\ WindowInit
  /\ callNo = 1
  /\ prev = [i \in Tasks |-> [status |-> NoStatus, cur |-> "none"]]
  /\ tokens = {}

TaskStep(i) ==
  \/ Start(i)
  \/ BadCall(i)
  \/ AdbConnect(i)
  \/ AdbRead(i)
  \/ AdbToggle(i)
  \/ WebosNoMac(i)
  \/ WebosConnect(i)
  \/ WebosLoadTokens(i)
  \/ WebosSaveTokens(i)
  \/ WebosWol(i)
  \/ WebosPowerOff(i)

LoopStep ==
  \/ Submit
  \/ AsCompleted
  \/ \E i \in Devices : Handle(i)
  \/ \E i \in Devices : CallbackReturn(i)
  \/ ReturnResults

Next ==
  \/ \E i \in Devices : TaskStep(i)
  \/ LoopStep

Spec == Init /\ [][Next]_vars

\* Each worker and the calling thread are threads of the operating system:
\* one that can take a step eventually takes it.  A resolution that hangs has
\* no step left.
Fairness ==
  /\ \A i \in Devices : WF_vars(TaskStep(i))
  /\ WF_vars(LoopStep)

FairSpec == Spec /\ Fairness

\* The caller issues the same dispatch again once the first has returned, with
\* nothing else acting on the devices in between.
SecondCall ==
  /\ dstate = "returned" /\ callNo = 1
  /\ callNo' = 2
  /\ prev' = [i \in Tasks |-> [status |-> StatusOf(fut[i], Config(i)), cur |-> cur[i]]]
  /\ pc' = [i \in Tasks |-> "unsub"]
  /\ conn' = [i \in Tasks |-> "none"]
  /\ cur' = [i \in Tasks |-> "none"]
  /\ pw' = [i \in Tasks |-> "none"]
  /\ cmds' = [i \in Tasks |-> <<>>]
  /\ fut' = [i \in Tasks |-> NoFuture]
  /\ nsub' = 0
  /\ dstate' = "submit"
  /\ early' = {}
  /\ snap' = {}
  /\ fin' = <<>>
  /\ results' = <<>>
  /\ cbLog' = <<>>
  /\ order' = <<>>
  /\ waiting' = <<>>
  /\ loaded' = [i \in Tasks |-> {}]
  /\ body' = {}
  /\ UNCHANGED <<uiVars, inputVars, power, tokens>>

\* The start of a call whose callback raises for the status of one device of
\* the list.
InitCb ==
  /\ entry \in {"tv_service", "adb_controller"}
  /\ action \in {"check", "on", "off"}
  /\ max_workers \in 1..MaxWorkers
  /\ on_tv_complete = TRUE
  /\ tv_list \in DeviceLists
  /\ \E d \in Devices : InList(d) /\ cb_raises = {d}
  /\ entry = "adb_controller" => \A i \in Tasks : Config(i).protocol = "adb"
  /\ power \in [Devices -> {"awake", "asleep"}]
  /\ \A d \in Devices : ~Contacted(d) => power[d] = "asleep"
  /\ CallInit
  /\ WindowInit
  /\ callNo = 1
  /\ prev = [i \in Tasks |-> [status |-> NoStatus, cur |-> "none"]]
  /\ tokens = {}

SpecCb == InitCb /\ [][Next]_vars

SpecDup == InitDup /\ [][Next]_vars

InitSeq == Init /\ Len(tv_list) <= MaxSeqLen

NextSeq == Next \/ SecondCall

SpecSeq == InitSeq /\ [][NextSeq]_vars

\* ------------------------------------------- tv_controller.py: the window
\* The window runs on the event loop's thread: a button action, an indicator
\* update, on_operation_complete and a reset timer are each one event,
\* handled whole and one at a time.  The dispatch runs on a thread of its
\* own, started by the button action.

\* The longest device list of a button, and the button actions of a run.
MaxUiLen == 2
MaxPresses == 2

\* The pool size the window passes (tv_controller.py:352).
UiMaxWorkers == 6

\* A device configuration load_config accepts: a paired device has a MAC
\* address (config_loader.py:54-58).
Loadable(config) == config.protocol = "webos" => config.mac

\* The device lists of the buttons.
UiLists ==
  {l \in DeviceLists :
     /\ Len(l) <= MaxUiLen
     /\ \A k \in 1..Len(l) : Loadable(TVConfig(l[k]))}

\* get_indicator_key (tv_controller.py:294-298): the indicator of the device
\* with the status's name and ip.
IndicatorKey(status) == status.name

\* TVIndicator.update_from_status (tv_controller.py:73-83).
UpdateFromStatus(status) ==
  IF status.state = "unreachable" THEN "failed"
  ELSE IF status.action_result = "failed" THEN "failed"
  ELSE IF status.state \in {"awake", "asleep"} THEN "success"
  ELSE IF IsPrompt(status.message) THEN "connecting"
  ELSE "unknown"

\* A guard that lets a button action through while an operation runs.
Busy_Never == FALSE

\* The guard of run_threaded_operation (tv_controller.py:339-340).
Busy == is_operation_running

\* root.after(0, ...) events run in the order they were queued: the
\* operation's indicator updates (tv_controller.py:325) were all queued
\* before its on_operation_complete (tv_controller.py:354).
CompleteIsNext == applied = Len(cbLog)

\* schedule_indicator_reset's after_cancel (tv_controller.py:307-308): the
\* pending timer of the key, if reset_jobs holds one.
CancelledJobs(key) == IF key \in reset_jobs /\ timers[key] > 0 THEN 1 ELSE 0

\* A button action: run_threaded_operation (tv_controller.py:332-357).  It
\* returns at once while an operation runs; otherwise it sets the flag,
\* disables the buttons, turns the indicators of the list to connecting and
\* starts the thread, which enters execute_on_multiple_tvs.
RunThreadedOperation ==
  /\ presses < MaxPresses
  /\ presses' = presses + 1
  /\ IF Busy
     THEN UNCHANGED <<is_operation_running, buttons, indicator, reset_jobs,
                      timers, applied, threads, queued, inputVars, power,
                      taskVars, loopVars, fin, waiting, callVars, storeVars>>
     ELSE /\ is_operation_running' = TRUE
          /\ buttons' = "disabled"
          /\ indicator' = [d \in Devices |->
                             IF InList(d) THEN "connecting" ELSE indicator[d]]
          /\ threads' = threads + 1
          /\ applied' = 0
          /\ pc' = [i \in Tasks |-> "unsub"]
          /\ conn' = [i \in Tasks |-> "none"]
          /\ cur' = [i \in Tasks |-> "none"]
          /\ pw' = [i \in Tasks |-> "none"]
          /\ cmds' = [i \in Tasks |-> <<>>]
          /\ fut' = [i \in Tasks |-> NoFuture]
          /\ nsub' = 0
          /\ dstate' = "submit"
          /\ early' = {}
          /\ snap' = {}
          /\ fin' = <<>>
          /\ results' = <<>>
          /\ cbLog' = <<>>
          /\ order' = <<>>
          /\ waiting' = <<>>
          /\ loaded' = [i \in Tasks |-> {}]
          /\ body' = {}
          /\ UNCHANGED <<reset_jobs, timers, queued, inputVars, power, tokens,
                         callVars>>

\* run_operation (tv_controller.py:347-353): the thread runs the dispatch.
RunOperation == threads > 0 /\ Next

\* run_operation's last statement (tv_controller.py:354): the dispatch has
\* returned, the thread queues on_operation_complete and ends.
QueueOperationComplete ==
  /\ threads > 0 /\ dstate = "returned" /\ ~queued
  /\ threads' = threads - 1
  /\ queued' = TRUE
  /\ UNCHANGED <<is_operation_running, buttons, indicator, reset_jobs, timers,
                 applied, presses, inputVars, power, taskVars, loopVars, fin,
                 waiting, callVars, storeVars>>

\* update_indicator_from_status with schedule_indicator_reset
\* (tv_controller.py:327-330, 306-314): the event on_tv_complete queued for
\* the next status the callback received.
UpdateIndicatorFromStatus ==
  /\ applied < Len(cbLog)
  /\ LET status == cbLog[applied + 1]
         key == IndicatorKey(status)
     IN /\ indicator' = [indicator EXCEPT
                           ![key] = UpdateFromStatus(status)]
        /\ timers' = [timers EXCEPT ![key] = @ - CancelledJobs(key) + 1]
        /\ reset_jobs' = reset_jobs \cup {key}
  /\ applied' = applied + 1
  /\ UNCHANGED <<is_operation_running, buttons, threads, queued, presses,
                 inputVars, power, taskVars, loopVars, fin, waiting, callVars,
                 storeVars>>

\* on_operation_complete (tv_controller.py:359-362).
OnOperationComplete ==
  /\ queued /\ CompleteIsNext
  /\ queued' = FALSE
  /\ is_operation_running' = FALSE
  /\ buttons' = "normal"
  /\ UNCHANGED <<indicator, reset_jobs, timers, applied, threads, presses,
                 inputVars, power, taskVars, loopVars, fin, waiting, callVars,
                 storeVars>>

\* reset_single_indicator (tv_controller.py:316-320): a pending reset timer
\* of key d fires, STATUS_RESET_DELAY_MS after it was scheduled.
ResetSingleIndicator(d) ==
  /\ timers[d] > 0
  /\ timers' = [timers EXCEPT ![d] = @ - 1]
  /\ indicator' = [indicator EXCEPT ![d] = "unknown"]
  /\ reset_jobs' = reset_jobs \ {d}
  /\ UNCHANGED <<is_operation_running, buttons, applied, threads, queued,
                 presses, inputVars, power, taskVars, loopVars, fin, waiting,
                 callVars, storeVars>>

\* The window after construction, with the button the user presses: the
\* dispatch is tv_service's, with on_tv_complete (tv_controller.py:9,348-353).
InitUI ==
  /\ entry = "tv_service"
  /\ action \in {"check", "on", "off"}
  /\ max_workers = UiMaxWorkers
  /\ on_tv_complete = TRUE
  /\ cb_raises = {}
  /\ tv_list \in UiLists
  /\ power \in [Devices -> {"awake", "asleep"}]
  /\ \A d \in Devices : ~Contacted(d) => power[d] = "asleep"
  /\ CallInit
  /\ WindowInit
  /\ callNo = 1
  /\ prev = [i \in Tasks |-> [status |-> NoStatus, cur |-> "none"]]
  /\ tokens = {}

NextUI ==
  \/ RunThreadedOperation
  \/ RunOperation
  \/ QueueOperationComplete
  \/ UpdateIndicatorFromStatus
  \/ OnOperationComplete
  \/ \E d \in Devices : ResetSingleIndicator(d)

SpecUI == InitUI /\ [][NextUI]_vars

\* The dispatch's threads and the event loop's thread are threads of the
\* operating system: one that can take a step eventually takes it.  Nothing
\* obliges the user to press a button, and a reset timer waits its delay.
FairnessUI ==
  /\ \A i \in Devices : WF_vars(threads > 0 /\ TaskStep(i))
  /\ WF_vars(threads > 0 /\ LoopStep)
  /\ WF_vars(QueueOperationComplete)
  /\ WF_vars(UpdateIndicatorFromStatus)
  /\ WF_vars(OnOperationComplete)

FairSpecUI == SpecUI /\ FairnessUI

\* ---------------------------------------------------------------- claims
Handled(i) == \E k \in 1..Len(order) : order[k] = i

\* The fault result of the loop body for work item i (tv_service.py:59-65).
FaultStatus(i) ==
  TVStatus(Config(i).name, Config(i).ip, "unreachable", "failed",
           "Error: " \o fut[i].exc)

\* C1: when a dispatch call has returned, whatever failures and faults the
\* resolutions met, results holds exactly len(tv_list) statuses and each
\* device's (name, ip) pair is in exactly one of them.
C1_OneResultPerDevice ==
  dstate = "returned" =>
    /\ Len(results) = Len(tv_list)
    /\ \A i \in Tasks :
         Cardinality({k \in 1..Len(results) :
                        /\ results[k].name = Config(i).name
                        /\ results[k].ip = Config(i).ip}) = 1

\* C1's case: a call of several devices has returned, one resolution having
\* raised and another having failed to connect.
C1_Witness ==
  /\ dstate = "returned" /\ N >= 2
  /\ \E i \in Tasks : fut[i].exc # ""
  /\ \E i \in Tasks : conn[i] \in {"fail", "error", "regfail"}

\* C2: at no time are more than max_workers resolutions running; the work
\* items beyond that stay queued.
C2_BoundedConcurrency == Cardinality(Running) <= max_workers

\* C2's case: with fewer workers than devices, every worker is busy and a
\* work item waits in the queue.
C2_Witness ==
  /\ max_workers < N
  /\ Cardinality(Running) = max_workers
  /\ Queued # {}

\* C3: a resolution that raised gets the status {UNREACHABLE, FAILED,
\* "Error: <detail>"} with its own name and ip, every other work item gets
\* the status its own resolution returned, and the call returns.
C3_FaultIsolated ==
  /\ \A k \in 1..Len(order) :
       results[k] = IF fut[order[k]].exc # "" THEN FaultStatus(order[k])
                    ELSE fut[order[k]].status
  /\ (dstate = "returned" /\ \E i \in Tasks : fut[i].exc # "")
       => \A i \in Tasks : Handled(i)

\* C3's case: the call has returned, one resolution raised and another
\* returned a status of its own.
C3_Witness ==
  /\ dstate = "returned"
  /\ \E i, j \in Tasks :
       /\ fut[i].exc # "" /\ fut[j].exc = ""
       /\ \E k \in 1..Len(results) : results[k] = fut[j].status

\* The callback has received, one by one, the statuses of results, each that
\* of the work item handled at that place, and no work item twice; once the
\* call has returned, every work item was handled.
CallbackOncePerDevice ==
  /\ cbLog = results
  /\ \A k \in 1..Len(order) :
       /\ results[k] = StatusOf(fut[order[k]], Config(order[k]))
       /\ \A l \in 1..Len(order) : order[l] = order[k] => l = k
  /\ dstate = "returned" => \A i \in Tasks : Handled(i)

\* The work item the loop has just handled.
JustHandled == order'[Len(order')]

\* C4 as stated: the callback is invoked exactly once per device with the
\* status the returned list holds for it, and every invocation is for the
\* resolution that completed first among those not yet reported.
C4_CompletionOrder ==
  /\ []CallbackOncePerDevice
  /\ [][Len(order') > Len(order) => JustHandled = Head(waiting)]_vars

\* C4 as amended: the callback is invoked exactly once per device with the
\* status the returned list holds for it; the resolutions that completed
\* before the loop began are reported first, in no particular order, and the
\* others after them in the order in which they completed.
C4_CallbackPerDevice ==
  /\ []CallbackOncePerDevice
  /\ [](\A k, l \in 1..Len(order) :
          (k < l /\ order[l] \in early) => order[k] \in early)
  /\ [][Len(order') > Len(order) =>
          (JustHandled \in early \/ JustHandled = Head(waiting))]_vars

\* C4's case: the call has returned after reporting resolutions that had
\* completed before the loop began and others that completed during it.
C4_Witness ==
  /\ dstate = "returned"
  /\ Len(cbLog) = N
  /\ \E i, j \in Tasks : i \in early /\ j \notin early

Hung == {i \in Tasks : pc[i] = "hung"}

\* The callback has received work item i's status.
Delivered(i) ==
  \E k \in 1..Len(cbLog) : order[k] = i /\ cbLog[k] = StatusOf(fut[i], Config(i))

\* C5: with at least two workers and at most one resolution hung, every
\* other work item of the call is eventually resolved and its status
\* delivered to the callback, the hung one never finishing.
C5_HungDeviceDoesNotBlock ==
  \A i \in Devices :
    (max_workers >= 2 /\ i \in Tasks)
      ~> (Delivered(i) \/ i \in Hung \/ Cardinality(Hung) >= 2)

\* C5's case: one resolution hangs, and a work item submitted after it has
\* been delivered to the callback.
C5_Witness ==
  /\ max_workers >= 2
  /\ \E h, i \in Tasks : Hung = {h} /\ h < i /\ Delivered(i)

\* The driver calls work item i's resolution has made include c.
Sent(i, c) == \E k \in 1..Len(cmds[i]) : cmds[i][k] = c

\* The statuses the bridge state machine can end with for a device.
BridgeStatuses(a, name, ip) ==
  {TVStatus(name, ip, "unreachable", Outcome(a, "failed"),
            "Could not connect: " \o ConnectionMessage)}
  \cup {AdbAfterRead(a, name, ip, s) : s \in TVState}
  \cup {AdbAfterToggle(a, name, ip, s, b) : s \in TVState, b \in BOOLEAN}

\* C6: tv_service resolves a "webos" descriptor by the paired state machine
\* and any other descriptor by the bridge state machine, and the status
\* delivered for the device is one that state machine produces from the
\* descriptor's name and ip, not a fault result.
C6_ResolverSelected ==
  \A k \in 1..Len(order) :
    LET i == order[k]
    IN (entry = "tv_service" /\ Config(i).protocol # "webos") =>
         /\ fut[i].exc = ""
         /\ results[k] \in BridgeStatuses(action, Config(i).name, Config(i).ip)

\* The paired half of C6, which the code meets: a "webos" descriptor is
\* resolved by the paired state machine, and a fault result comes only from
\* the token file.
C6_PairedSelected ==
  \A i \in Tasks :
    (entry = "tv_service" /\ Config(i).protocol = "webos" /\ pc[i] = "done") =>
      /\ fut[i].exc \in {"", TokenFaultDetail}
      /\ \A k \in 1..Len(cmds[i]) :
           cmds[i][k] \in {"connect", "save", "wol", "poweroff"}

\* C7: a bridge turn-on whose state read returns AWAKE ends at once with
\* {AWAKE, SKIPPED, "Already on"} and sends no toggle.
C7_BridgeOnWhenAwake ==
  \A i \in Tasks :
    (Route(entry, Config(i).protocol) = "adb" /\ action = "on" /\ cur[i] = "awake") =>
      /\ pc[i] = "done"
      /\ fut[i].exc = ""
      /\ fut[i].status = TVStatus(Config(i).name, Config(i).ip, "awake",
                                  "skipped", "Already on")
      /\ ~Sent(i, "toggle")
      /\ power[Dev(i)] = "awake"

\* C7's case: a bridge turn-on has read AWAKE from a device that is awake.
C7_Witness ==
  \E i \in Tasks :
    /\ Route(entry, Config(i).protocol) = "adb" /\ action = "on"
    /\ cur[i] = "awake" /\ Handled(i)

\* C8: a turn-off that finds the device asleep (the bridge state read
\* returns ASLEEP; the paired connect yields no client and no prompt) ends
\* with outcome SKIPPED and state ASLEEP and sends no toggle and no
\* power-off.
C8_OffWhenAsleep ==
  \A i \in Tasks :
    /\ (Route(entry, Config(i).protocol) = "adb" /\ action = "off"
          /\ cur[i] = "asleep") =>
         /\ pc[i] = "done" /\ fut[i].exc = ""
         /\ fut[i].status = TVStatus(Config(i).name, Config(i).ip, "asleep",
                                     "skipped", "Already off")
         /\ ~Sent(i, "toggle")
         /\ power[Dev(i)] = "asleep"
    /\ (Route(entry, Config(i).protocol) = "webos" /\ action = "off"
          /\ conn[i] \in {"error", "regfail"}) =>
         /\ pc[i] = "done" /\ fut[i].exc = ""
         /\ fut[i].status.state = "asleep"
         /\ fut[i].status.action_result = "skipped"
         /\ ~Sent(i, "poweroff") /\ ~Sent(i, "wol")

\* C8's case: a bridge turn-off has read ASLEEP from a device that is asleep
\* and its status was handled.
C8_Witness ==
  \E i \in Tasks :
    /\ Route(entry, Config(i).protocol) = "adb" /\ action = "off"
    /\ cur[i] = "asleep" /\ Handled(i)

\* The paired case of C8: a turn-off whose connect failed for a device that
\* is asleep.
C8_WitnessPaired ==
  \E i \in Tasks :
    /\ Route(entry, Config(i).protocol) = "webos" /\ action = "off"
    /\ conn[i] = "error" /\ power[Dev(i)] = "asleep" /\ Handled(i)

\* The power commands of work item i's resolution.
PowerCommands(i) ==
  Cardinality({k \in 1..Len(cmds[i]) : cmds[i][k] \in {"toggle", "wol", "poweroff"}})

\* No driver call of work item i's resolution met a transport failure or a
\* fault: a bridge connect, state read and toggle succeed, and a paired
\* handshake registers unless the device is asleep.
Undisturbed(i) ==
  /\ conn[i] \notin {"fail", "fault", "regfail", "hang", "prompted"}
  /\ cur[i] \notin {"unreachable", "unknown"}
  /\ pw[i] # "fail"
  /\ conn[i] = "error" => power[Dev(i)] = "asleep"

\* C9 as stated: when ON is dispatched a second time after the first call
\* returned, a device whose first status was SUCCESS gets SKIPPED and no
\* power command (no driver call of the second resolution being disturbed).
C9_OnTwiceSkips ==
  \A k \in 1..Len(order) :
    LET i == order[k]
    IN (/\ callNo = 2 /\ action = "on"
        /\ prev[i].status.action_result = "success"
        /\ Undisturbed(i)) =>
         /\ results[k].action_result = "skipped"
         /\ PowerCommands(i) = 0

\* C9 as amended: a device whose first status was SUCCESS gets SKIPPED and
\* no power command in the second call when the second call finds it awake:
\* a bridge device whose first state read was ASLEEP, once the second call
\* connects and reads a known state; a paired device, once the second
\* handshake registers.
C9_OnTwiceWhenAwake ==
  \A k \in 1..Len(order) :
    LET i == order[k]
    IN (/\ callNo = 2 /\ action = "on"
        /\ prev[i].status.action_result = "success"
        /\ IF Route(entry, Config(i).protocol) = "adb"
           THEN /\ prev[i].cur = "asleep"
                /\ conn[i] = "ok" /\ cur[i] \in {"awake", "asleep"}
           ELSE conn[i] = "registered") =>
         /\ results[k].action_result = "skipped"
         /\ results[k].state = "awake"
         /\ PowerCommands(i) = 0
         /\ power[Dev(i)] = "awake"

\* C9's case: a bridge device was turned on by the first call from ASLEEP,
\* and the second call has read its state and been handled.
C9_Witness ==
  \E k \in 1..Len(order) :
    /\ callNo = 2 /\ action = "on"
    /\ Route(entry, Config(order[k]).protocol) = "adb"
    /\ prev[order[k]].status.action_result = "success"
    /\ prev[order[k]].cur = "asleep"
    /\ cur[order[k]] = "awake"

\* The paired case of C9: the first call sent a Wake-on-LAN packet, and the
\* second call's handshake registered.
C9_WitnessPaired ==
  \E k \in 1..Len(order) :
    /\ callNo = 2 /\ action = "on"
    /\ Route(entry, Config(order[k]).protocol) = "webos"
    /\ prev[order[k]].status.action_result = "success"
    /\ conn[order[k]] = "registered"

\* C10: ON dispatched to a bridge device that is asleep, with no driver call
\* failing (the connect succeeds, the state read returns ASLEEP, the toggle
\* succeeds), ends with {AWAKE, SUCCESS, "Turned on"} and exactly one toggle
\* sent to the device.
C10_BridgeOnFromAsleep ==
  \A k \in 1..Len(order) :
    LET i == order[k]
    IN (/\ Config(i).protocol = "adb" /\ action = "on"
        /\ conn[i] # "fail" /\ pw[i] # "fail"
        /\ cur[i] \in {"asleep", "none"}
        /\ cur[i] = "none" => power[Dev(i)] = "asleep") =>
         /\ results[k] = TVStatus(Config(i).name, Config(i).ip, "awake",
                                  "success", "Turned on")
         /\ Cardinality({l \in 1..Len(cmds[i]) : cmds[i][l] = "toggle"}) = 1

\* C10 holds of the bridge state machine when it is called with (name, ip),
\* as adb_controller's own dispatcher calls it.
C10_ViaBridgeDispatcher == entry = "adb_controller" => C10_BridgeOnFromAsleep

\* C11: a paired resolution whose handshake reported "prompted" sends no
\* Wake-on-LAN and no power-off, makes its save call to the credential store
\* before it produces a result, and ends with state UNKNOWN, the message
\* "Accept prompt on TV", outcome FAILED for on/off and none for a query.
C11_PromptedIsUnknown ==
  \A i \in Tasks :
    conn[i] = "prompted" =>
      /\ ~Sent(i, "wol") /\ ~Sent(i, "poweroff")
      /\ pc[i] \in {"load", "save", "done"}
      /\ fut[i].done =>
           /\ cmds[i] = <<"connect", "save">>
           /\ fut[i].exc = ""
           /\ fut[i].status =
                TVStatus(Config(i).name, Config(i).ip, "unknown",
                         IF action = "check" THEN "none" ELSE "failed",
                         "Accept prompt on TV")
      /\ \A k \in 1..Len(order) : order[k] = i => results[k] = fut[i].status

\* C11's case: a turn-on of a paired device met the pending prompt and its
\* status was handled.
C11_Witness ==
  \E i \in Tasks :
    /\ action = "on" /\ conn[i] = "prompted" /\ Handled(i)

\* C12: a paired turn-on for a device without a MAC address makes no driver
\* call (no connect or handshake, no read of the token file, no save, no
\* Wake-on-LAN packet) and ends with {UNKNOWN, FAILED, "No MAC address
\* configured for Wake-on-LAN"}, whether the device is awake or asleep.
C12_NoMacNoCalls ==
  \A i \in Tasks :
    (Route(entry, Config(i).protocol) = "webos" /\ action = "on"
       /\ ~Config(i).mac) =>
      /\ cmds[i] = <<>>
      /\ conn[i] = "none" /\ loaded[i] = {}
      /\ pc[i] \in {"unsub", "queued", "run", "done"}
      /\ Config(i).ip \notin tokens
      /\ fut[i].done =>
           /\ fut[i].exc = ""
           /\ fut[i].status =
                TVStatus(Config(i).name, Config(i).ip, "unknown", "failed",
                         "No MAC address configured for Wake-on-LAN")

\* C12's case: a turn-on of a paired device without a MAC address, the
\* device being awake, has been handled.
C12_Witness ==
  \E i \in Tasks :
    /\ Route(entry, Config(i).protocol) = "webos" /\ action = "on"
    /\ ~Config(i).mac /\ power[Dev(i)] = "awake" /\ Handled(i)

\* The status of a query whose connect failed with the given detail.
QueryConnectFailed(i, detail) ==
  TVStatus(Config(i).name, Config(i).ip, "unreachable", "none",
           "Could not connect: " \o detail)

C13_WitnessOthers ==
  /\ action = "check" /\ dstate = "returned"
  /\ \E i \in Tasks : conn[i] = "registered"
  /\ \E i \in Tasks : conn[i] = "error"

\* The connect of work item i's resolution failed at transport level: the
\* bridge connect failed, or the paired handshake raised or ended without a
\* status (not the pending prompt).
ConnectFailed(i) == conn[i] \in {"fail", "error", "regfail"}

\* C14 as stated: for every action and both protocols, a resolution whose
\* connect failed at transport level ends with state UNREACHABLE, outcome
\* FAILED for on/off, and sends no power command.
C14_ConnectFailureUnreachable ==
  \A i \in Tasks :
    (ConnectFailed(i) /\ fut[i].done) =>
      /\ PowerCommands(i) = 0
      /\ fut[i].status.state = "unreachable"
      /\ action # "check" => fut[i].status.action_result = "failed"

\* C14 as amended: a bridge resolution (any action) and a paired query whose
\* connect failed at transport level end with state UNREACHABLE, outcome
\* FAILED for on/off and none for a query, and send no power command; a
\* paired turn-off ends {ASLEEP, SKIPPED} with no power command, and a paired
\* turn-on goes on to its Wake-on-LAN packet.
C14_BridgeConnectFailure ==
  \A i \in Tasks :
    ConnectFailed(i) =>
      /\ (Route(entry, Config(i).protocol) = "adb" \/ action = "check") =>
           /\ PowerCommands(i) = 0
           /\ pc[i] = "done" /\ fut[i].exc = ""
           /\ cmds[i] = <<"connect">>
           /\ fut[i].status.state = "unreachable"
           /\ fut[i].status.action_result = Outcome(action, "failed")
      /\ (Route(entry, Config(i).protocol) = "webos" /\ action = "off") =>
           /\ PowerCommands(i) = 0
           /\ pc[i] = "done" /\ fut[i].exc = ""
           /\ fut[i].status.state = "asleep"
           /\ fut[i].status.action_result = "skipped"
      /\ (Route(entry, Config(i).protocol) = "webos" /\ action = "on") =>
           /\ pc[i] \in {"wol", "done"}
           /\ pc[i] = "done" => cmds[i] = <<"connect", "wol">>

\* C14's case: a bridge turn-on whose connect failed has been handled.
C14_Witness ==
  \E i \in Tasks :
    /\ Route(entry, Config(i).protocol) = "adb" /\ action = "on"
    /\ conn[i] = "fail" /\ Handled(i)

\* C15: in a bridge turn-on or turn-off, every toggle is the resolution's
\* third call, after its connect, which succeeded, and its state read, which
\* comes immediately before the toggle; a resolution about to toggle has just
\* read the state.
C15_ReadBeforeToggle ==
  \A i \in Tasks :
    (Route(entry, Config(i).protocol) = "adb" /\ action # "check") =>
      /\ \A k \in 1..Len(cmds[i]) :
           cmds[i][k] = "toggle" =>
             /\ k = 3
             /\ cmds[i][1] = "connect" /\ conn[i] = "ok"
             /\ cmds[i][2] = "read" /\ cur[i] \in TVState
      /\ pc[i] = "toggle" =>
           /\ cmds[i] = <<"connect", "read">>
           /\ conn[i] = "ok" /\ cur[i] \in TVState

\* C15's case: a bridge turn-off has connected, read the state and toggled.
C15_Witness ==
  \E i \in Tasks :
    /\ Route(entry, Config(i).protocol) = "adb" /\ action = "off"
    /\ Sent(i, "toggle") /\ Handled(i)

\* How many times work item i's resolution made the driver call c.
Calls(i, c) == Cardinality({k \in 1..Len(cmds[i]) : cmds[i][k] = c})

\* Work item i's resolution made at most one connect, one state read and one
\* power command, and a resolution that raised made no driver call.
AttemptedOnce(i) ==
  /\ Calls(i, "connect") <= 1
  /\ Calls(i, "read") <= 1
  /\ PowerCommands(i) <= 1
  /\ fut[i].exc # "" => cmds[i] = <<>>

\* The failed call of a bridge resolution, or a failed power command, is the
\* last call of the resolution.
FailureIsLast(i) ==
  /\ conn[i] = "fail" => cmds[i] = <<"connect">>
  /\ cur[i] = "unreachable" => cmds[i] = <<"connect", "read">>
  /\ pw[i] = "fail" =>
       /\ pc[i] = "done"
       /\ cmds[i][Len(cmds[i])] \in {"toggle", "wol", "poweroff"}

\* C16 as stated: each resolution makes at most one connect, one state read
\* and one power command, and after any call of it failed (connect, state
\* read, power command) it makes no further call.
C16_NoCallAfterFailure ==
  \A i \in Tasks :
    /\ AttemptedOnce(i)
    /\ FailureIsLast(i)
    /\ conn[i] \in {"error", "regfail"} => cmds[i] = <<"connect">>

\* C16 as amended: each resolution makes at most one connect, one state read
\* and one power command, and makes no further call after a call of it
\* failed, except that a paired turn-on whose connect failed goes on to send
\* its one Wake-on-LAN packet.
C16_AttemptedOnce ==
  \A i \in Tasks :
    /\ AttemptedOnce(i)
    /\ FailureIsLast(i)
    /\ conn[i] \in {"error", "regfail"} =>
         IF action = "on"
         THEN /\ pc[i] \in {"wol", "done"}
              /\ cmds[i] = IF pc[i] = "wol" THEN <<"connect">>
                           ELSE <<"connect", "wol">>
         ELSE pc[i] = "done" /\ cmds[i] = <<"connect">>

\* C16's case: in a call of several devices that has returned, the power
\* command of one resolution failed and the connect of another failed.
C16_Witness ==
  /\ dstate = "returned" /\ N >= 2
  /\ \E i \in Tasks : pw[i] = "fail"
  /\ \E i \in Tasks : ConnectFailed(i)

\* Another case of C16: a bridge state read failed and the resolution ended.
C16_WitnessRead ==
  \E i \in Tasks : cur[i] = "unreachable" /\ action = "on" /\ Handled(i)

\* C17 as stated: every result of a query dispatch has no outcome, those of
\* faulted resolutions included, and every result of an on/off dispatch has
\* one of SUCCESS, FAILED, SKIPPED.
C17_OutcomeIffAction ==
  \A k \in 1..Len(results) :
    IF action = "check" THEN results[k].action_result = "none"
    ELSE results[k].action_result \in ActionResult
\* C17 as stated, of the paired devices alone: it fails for them too, when
\* the token file makes get_token_for_ip raise.
C17_OutcomeIffActionPaired ==
  \A k \in 1..Len(results) :
    (Config(order[k]).protocol = "webos" /\ action = "check") =>
      results[k].action_result = "none"

\* C17 as amended: the result of a resolution that returned has no outcome
\* in a query dispatch and one of SUCCESS, FAILED, SKIPPED in an on/off
\* dispatch; the result produced for a resolution that raised has outcome
\* FAILED whatever the action, a query included.
C17_OutcomeUnlessFault ==
  \A k \in 1..Len(results) :
    IF fut[order[k]].exc # "" THEN results[k].action_result = "failed"
    ELSE IF action = "check" THEN results[k].action_result = "none"
    ELSE results[k].action_result \in ActionResult

\* C17's case: a query dispatch has returned the result of a resolution that
\* raised and that of one that returned.
C17_Witness ==
  /\ action = "check" /\ dstate = "returned"
  /\ \E k, l \in 1..Len(results) :
       fut[order[k]].exc # "" /\ fut[order[l]].exc = ""

\* C18: a paired turn-on for a device with a MAC address sends at most one
\* Wake-on-LAN packet, and only after a connect that found no client and no
\* pending prompt; once the packet is sent the status is {AWAKE, SUCCESS,
\* "Wake-on-LAN packet sent"}, and when the send fails it is {ASLEEP, FAILED,
\* "Wake-on-LAN packet failed to send"}, whether or not the device wakes.
C18_WakeOnLan ==
  \A i \in Tasks :
    (Route(entry, Config(i).protocol) = "webos" /\ action = "on"
       /\ Config(i).mac) =>
      /\ Calls(i, "wol") <= 1
      /\ (pc[i] = "wol" \/ Sent(i, "wol")) =>
           /\ conn[i] \in {"error", "regfail"}
           /\ cmds[i][1] = "connect"
      /\ Sent(i, "wol") =>
           /\ pc[i] = "done" /\ fut[i].exc = ""
           /\ cmds[i] = <<"connect", "wol">>
           /\ fut[i].status =
                IF pw[i] = "ok"
                THEN TVStatus(Config(i).name, Config(i).ip, "awake", "success",
                              "Wake-on-LAN packet sent")
                ELSE TVStatus(Config(i).name, Config(i).ip, "asleep", "failed",
                              "Wake-on-LAN packet failed to send")

\* C18's case: the packet was sent, the device did not wake, and the status
\* was handled.
C18_Witness ==
  \E i \in Tasks :
    /\ Route(entry, Config(i).protocol) = "webos" /\ action = "on"
    /\ Sent(i, "wol") /\ pw[i] = "ok" /\ power[Dev(i)] = "asleep" /\ Handled(i)

\* Other cases of C18: the packet could not be sent; the packet woke the
\* device.
C18_WitnessFailed ==
  \E i \in Tasks : action = "on" /\ Sent(i, "wol") /\ pw[i] = "fail" /\ Handled(i)

\* C19: once a dispatch has returned, the credential store holds a
\* credential for every device of the call whose handshake reported
\* "prompted" or "registered" (each of which saved one), however the
\* resolutions' load and save steps interleaved.
C19_NoCredentialLost ==
  dstate = "returned" =>
    \A i \in Tasks : (SavesToken(conn[i]) /\ Sent(i, "save")) => Config(i).ip \in tokens

\* With a single worker the resolutions run one after another and no
\* credential is lost.
C19_SerialKeepsCredentials == max_workers = 1 => C19_NoCredentialLost

\* C20: a bridge turn-on or turn-off whose connect succeeded and whose state
\* read returned UNREACHABLE ends with {UNREACHABLE, FAILED, "Could not read
\* power state"} and sends no toggle; a toggle is sent only after a state
\* read that returned neither the target state of the action nor UNREACHABLE.
C20_UnreadableStateNoToggle ==
  \A i \in Tasks :
    (Route(entry, Config(i).protocol) = "adb" /\ action # "check") =>
      /\ cur[i] = "unreachable" =>
           /\ conn[i] = "ok"
           /\ pc[i] = "done" /\ fut[i].exc = ""
           /\ fut[i].status = TVStatus(Config(i).name, Config(i).ip, "unreachable",
                                       "failed", "Could not read power state")
           /\ ~Sent(i, "toggle")
      /\ (pc[i] = "toggle" \/ Sent(i, "toggle")) =>
           /\ cur[i] \in TVState
           /\ cur[i] # "unreachable"
           /\ cur[i] # (IF action = "on" THEN "awake" ELSE "asleep")

\* C20's case: a bridge turn-off connected, could not read the state, and
\* its status was handled.
C20_Witness ==
  \E i \in Tasks :
    /\ Route(entry, Config(i).protocol) = "adb" /\ action = "off"
    /\ conn[i] = "ok" /\ cur[i] = "unreachable" /\ Handled(i)

\* The other case of C20: a toggle sent after a state read of UNKNOWN.
C20_WitnessUnknown ==
  \E i \in Tasks : action = "on" /\ cur[i] = "unknown" /\ Sent(i, "toggle")

\* C21: at no time is more than one loop body (a results append followed by
\* its callback invocation) running: a callback invocation in progress is
\* that of the last status appended, every earlier one has returned, and no
\* append happens during it, however many finished futures are waiting.
C21_Serialized ==
  /\ Cardinality(body) <= 1
  /\ Len(cbLog) = Len(results)
  /\ \A i \in body : Len(order) > 0 /\ order[Len(order)] = i

\* C21's case: a callback invocation is running while two other resolutions
\* have already finished and wait to be reported.
C21_Witness ==
  /\ body # {}
  /\ Cardinality({i \in Tasks : fut[i].done /\ ~Handled(i)}) >= 2

\* C22: a bridge turn-off that toggles (connect succeeded, state read
\* neither ASLEEP nor UNREACHABLE) ends {ASLEEP, SUCCESS, "Turned off"} when
\* the toggle succeeds and FAILED with the state that was read when it
\* fails; a paired turn-off whose handshake registered calls power_off once
\* and ends {ASLEEP, SUCCESS} when it succeeds and {AWAKE, FAILED} when it
\* fails.
C22_TurnOff ==
  \A i \in Tasks :
    (action = "off" /\ fut[i].done /\ fut[i].exc = "") =>
      /\ (Route(entry, Config(i).protocol) = "adb" /\ conn[i] = "ok"
            /\ cur[i] \notin {"asleep", "unreachable"}) =>
           /\ cmds[i] = <<"connect", "read", "toggle">>
           /\ pw[i] = "ok" =>
                fut[i].status = TVStatus(Config(i).name, Config(i).ip, "asleep",
                                         "success", "Turned off")
           /\ pw[i] = "fail" =>
                /\ fut[i].status.action_result = "failed"
                /\ fut[i].status.state = cur[i]
      /\ (Route(entry, Config(i).protocol) = "webos" /\ conn[i] = "registered") =>
           /\ Calls(i, "poweroff") = 1
           /\ pw[i] = "ok" =>
                /\ fut[i].status.state = "asleep"
                /\ fut[i].status.action_result = "success"
           /\ pw[i] = "fail" =>
                /\ fut[i].status.state = "awake"
                /\ fut[i].status.action_result = "failed"

\* C22's case: a paired turn-off registered, its power_off call failed, and
\* the status was handled.
C22_Witness ==
  \E i \in Tasks :
    /\ action = "off" /\ conn[i] = "registered" /\ pw[i] = "fail" /\ Handled(i)

\* The bridge cases of C22: a toggle that succeeded and one that failed.
C22_WitnessBridge ==
  \E i \in Tasks :
    /\ action = "off" /\ Route(entry, Config(i).protocol) = "adb"
    /\ cur[i] = "awake" /\ pw[i] = "fail" /\ Handled(i)

\* The status of work item i is the success of a bridge turn-on or turn-off.
BridgeSuccess(i) ==
  /\ Route(entry, Config(i).protocol) = "adb" /\ action # "check"
  /\ fut[i].done /\ fut[i].exc = ""
  /\ fut[i].status.action_result = "success"
  /\ fut[i].status.state = TargetState(action)

\* C23 as stated: a toggle flipping the device's power, whenever a bridge
\* turn-on returns {AWAKE, SUCCESS} the device is awake, and whenever a bridge
\* turn-off returns {ASLEEP, SUCCESS} it is asleep, whatever state was read
\* before the toggle, UNKNOWN included.
C23_SuccessMeansTarget ==
  \A i \in Tasks : BridgeSuccess(i) => power[Dev(i)] = TargetState(action)

\* C23 as amended: the same, when the state read before the toggle was ASLEEP
\* (turn-on) or AWAKE (turn-off), not UNKNOWN.
C23_SuccessAfterKnownRead ==
  \A i \in Tasks :
    (BridgeSuccess(i) /\ cur[i] # "unknown") =>
      /\ cur[i] = Flip(TargetState(action))
      /\ power[Dev(i)] = TargetState(action)

\* C23's case: a bridge turn-on read ASLEEP, toggled, and reported success.
C23_Witness ==
  \E i \in Tasks :
    /\ action = "on" /\ BridgeSuccess(i) /\ cur[i] = "asleep" /\ Handled(i)

\* The resolutions of the call whose toggle device d received.
TogglesTo(d) ==
  {i \in Tasks : Dev(i) = d /\ Sent(i, "toggle") /\ pw[i] = "ok"}

\* Two resolutions of one device both read the same known state and both
\* toggled.
DoubleToggle ==
  \E i, j \in Tasks :
    /\ i # j /\ Dev(i) = Dev(j)
    /\ cur[i] = cur[j] /\ cur[i] \in {"awake", "asleep"}
    /\ Sent(i, "toggle") /\ pw[i] = "ok"
    /\ Sent(j, "toggle") /\ pw[j] = "ok"

C24_NoDoubleToggle == ~DoubleToggle

\* With a list of distinct devices no device receives two toggles.
C24_DistinctDevices ==
  (\A i, j \in Tasks : i # j => Dev(i) # Dev(j)) =>
    \A d \in Devices : Cardinality(TogglesTo(d)) <= 1

\* C25: when the callback raises for one device's status, the call still
\* ends by returning len(tv_list) results, the callback having been invoked
\* for every device.
C25_CallbackFaultTolerated ==
  dstate \in {"returned", "raised"} =>
    /\ dstate = "returned"
    /\ Len(results) = N
    /\ Len(cbLog) = N

\* What the code does: once the callback has raised no further future is
\* handled, and the call ends by raising, never by returning.
C25_RaiseAborts ==
  /\ dstate = "returned" => \A k \in 1..Len(order) : Dev(order[k]) \notin cb_raises
  /\ dstate \in {"aborting", "raised"} =>
       /\ Len(order) > 0 /\ Dev(order[Len(order)]) \in cb_raises
       /\ body = {}

\* Every resolution of the running operation has terminated.
AllResolved == is_operation_running /\ \A i \in Tasks : fut[i].done

\* on_operation_complete has run: the flag is clear and the buttons enabled.
OperationOver == ~is_operation_running /\ buttons = "normal"

\* At most one dispatch runs, and only while the flag is set; a cleared flag
\* after an operation means its buttons are enabled and every indicator
\* update of it has been applied.
C26_OneDispatch ==
  /\ threads <= 1
  /\ threads > 0 => is_operation_running
  /\ queued => is_operation_running /\ threads = 0
  /\ is_operation_running => buttons = "disabled"
  /\ (~is_operation_running /\ presses > 0) =>
       /\ buttons = "normal"
       /\ dstate = "returned"
       /\ applied = N /\ Len(cbLog) = N

\* A button action while an operation runs starts nothing: the dispatch in
\* progress goes on undisturbed.
C26_BusyPressIgnored ==
  [][(is_operation_running /\ presses' # presses) =>
       UNCHANGED <<is_operation_running, buttons, indicator, threads, applied,
                   taskVars, loopVars>>]_vars

\* C26: the window runs at most one dispatch at a time, a button action
\* during an operation returns without starting one, and once every
\* resolution of the running operation has terminated on_operation_complete
\* eventually runs, clearing the flag and enabling the buttons, after all
\* indicator updates of the operation have been applied.
C26_OneDispatchThenComplete ==
  /\ []C26_OneDispatch
  /\ C26_BusyPressIgnored
  /\ AllResolved ~> OperationOver

\* C26's case: the button was pressed twice, and an operation on two devices
\* has completed with both indicator updates applied.
C26_Witness ==
  /\ presses = 2 /\ ~is_operation_running /\ buttons = "normal"
  /\ N = 2 /\ applied = 2 /\ dstate = "returned"
  /\ \A i \in Tasks : fut[i].done

\* The second operation of a run has completed too.
C26_WitnessAgain ==
  /\ presses = 2 /\ ~is_operation_running /\ applied = N
  /\ \E d \in Devices : timers[d] > 0 /\ indicator[d] = "success"

\* The indicator update of device d's result of the running operation has run.
ResultApplied(d) == \E k \in 1..applied : IndicatorKey(cbLog[k]) = d

\* C27: each indicator has at most one pending reset timer, and during an
\* operation the indicator of a device of the list stays connecting until the
\* device's result is applied.
C27_ConnectingUntilResult ==
  \A d \in Devices :
    /\ timers[d] <= 1
    /\ (is_operation_running /\ InList(d) /\ ~ResultApplied(d)) =>
         indicator[d] = "connecting"

\* What the code does keep: one pending timer per key, the one reset_jobs
\* records, and during a window's first operation (no timer left over) the
\* indicators stay connecting.
C27_OneTimerPerKey ==
  \A d \in Devices :
    /\ timers[d] <= 1
    /\ d \in reset_jobs <=> timers[d] = 1
    /\ (is_operation_running /\ InList(d) /\ ~ResultApplied(d)
          /\ timers[d] = 0 /\ indicator[d] # "connecting") => presses = 2

====
